---- MODULE Spec2Model ----
(***************************************************************************)
(* Gatekeeper (src/src/main.cpp): the connection-supervision and command-   *)
(* dispatch state machine of an ESP32 gate controller.                      *)
(*                                                                          *)
(* The program is one thread of control (setup() once, then loop() for      *)
(* ever); `pc` is its position.  Every blocking delay() is a position of    *)
(* its own, so that what can and what cannot happen while the program is    *)
(* blocked is visible.  The environment acts at any time: the network stack *)
(* delivers link events to NetworkEvent (which runs in the event task), the *)
(* broker becomes reachable or unreachable, and an established session is   *)
(* lost.  ESP.restart() does not return: the program stops at "restart"     *)
(* and the next step is the boot of a fresh program.                        *)
(***************************************************************************)
EXTENDS Integers, Sequences, FiniteSets, TLC

(* ---------------------------------------------------------------------- *)
(* Program constants                                                       *)
(* ---------------------------------------------------------------------- *)
CONNECT_WAIT == 30
MQTT_RETRIES == 5
MQTT_RETRY_DELAY == 2000
PULSE_DELAY == 750

(* ---------------------------------------------------------------------- *)
(* Bounds of the model                                                     *)
(* ---------------------------------------------------------------------- *)
MaxLen == 2

(* The payload bytes that are told apart: the three commands and one byte  *)
(* that is no command.                                                     *)
Bytes == {"0", "1", "9", "x"}

RECURSIVE SeqsUpTo(_)
SeqsUpTo(n) ==
    IF n = 0 THEN {<<>>}
    ELSE LET shorter == SeqsUpTo(n - 1)
         IN  shorter \cup {Append(s, b) : s \in {t \in shorter : Len(t) = n - 1}, b \in Bytes}

Payloads == SeqsUpTo(MaxLen)

LinkEvents == {"ETH_START", "ETH_CONNECTED", "ETH_GOT_IP",
               "ETH_DISCONNECTED", "ETH_STOP", "OTHER"}

VARIABLES
    pc,               \* position of the single thread of control
    eth_connected,    \* static bool eth_connected
    registered,       \* WiFi.onEvent(NetworkEvent) has been called
    nWait,            \* SetupNetwork's local countdown
    nLoop,            \* ConnectMqtt's local loop counter
    caller,           \* who called ConnectMqtt: "setup", "loop" or "harness"
    alive,            \* hMqttClient.connected()
    bound,            \* hMqttClient has its transport and server set
    callbackSet,      \* hMqttClient has MqttCallback installed
    subscribed,       \* the broker holds this session's subscription
    gate,             \* level of GATE_GPIO
    brokerReachable,  \* a connect attempt made now would succeed
    payload,          \* payload of the message being handled
    \* history variables: they record what happened and steer nothing
    ticks,            \* delay(1000) calls of SetupNetwork since boot
    restartSite,      \* position from which ESP.restart() was called
    gotIpSeen,        \* an address-acquired event arrived since boot
    lastLinkEvent,    \* the last address-acquired, disconnect or stop event since boot
    linkAtReturn,     \* value of eth_connected read when SetupNetwork returned
    cmLog,            \* connect attempts and pauses of the current/last ConnectMqtt call
    cmAliveAtEntry,   \* connected() as read at the entry of that call
    lastRet,          \* value returned by the last ConnectMqtt call
    cmOk,             \* connect attempts of that call that succeeded
    prevRet,          \* lastRet as it was when the current loop() iteration began
    cbLog,            \* pin writes, waits and restarts of the current MqttCallback call
    cbCalls,          \* MqttCallback calls in the current loop() iteration
    setupCmCalls,     \* ConnectMqtt calls made by SetupMQTT since boot
    subCalls,         \* hMqttClient.subscribe calls since boot
    iterPoll,         \* hMqttClient.loop() calls in the current loop() iteration
    pollRet,          \* what that call returned
    iterEnsure,       \* ConnectMqtt calls in the current loop() iteration
    iterTick          \* ArduinoOTA.handle() calls in the current loop() iteration

vars == <<pc, eth_connected, registered, nWait, nLoop, caller, alive, bound,
          callbackSet, subscribed, gate, brokerReachable, payload, ticks,
          restartSite, gotIpSeen, lastLinkEvent, linkAtReturn, cmLog,
          cmAliveAtEntry, lastRet, cmOk, prevRet, cbLog, cbCalls, setupCmCalls, subCalls, iterPoll, pollRet,
          iterEnsure, iterTick>>

progVars == <<pc, nWait, nLoop, caller, bound, callbackSet, gate, payload>>
linkVars == <<eth_connected, registered, gotIpSeen, lastLinkEvent>>
netHist  == <<ticks, linkAtReturn>>
cmHist   == <<cmLog, cmAliveAtEntry, lastRet, cmOk>>
iterHist == <<prevRet, iterPoll, pollRet, iterEnsure, iterTick>>
cbHist   == <<cbLog, cbCalls>>
setupHist == <<setupCmCalls, subCalls>>

None == "none"
BoolStr(b) == IF b THEN "true" ELSE "false"

(* The state of a freshly booted program, whatever the broker does.        *)
BootState ==
    /\ pc = "setup"
    /\ eth_connected = FALSE
    /\ registered = FALSE
    /\ nWait = 0
    /\ nLoop = 0
    /\ caller = None
    /\ alive = FALSE
    /\ bound = FALSE
    /\ callbackSet = FALSE
    /\ subscribed = FALSE
    /\ gate = "LOW"
    /\ payload = <<>>
    /\ ticks = 0
    /\ restartSite = None
    /\ gotIpSeen = FALSE
    /\ lastLinkEvent = None
    /\ linkAtReturn = None
    /\ cmLog = <<>>
    /\ cmAliveAtEntry = None
    /\ lastRet = None
    /\ cmOk = 0
    /\ prevRet = None
    /\ cbLog = <<>>
    /\ cbCalls = 0
    /\ setupCmCalls = 0
    /\ subCalls = 0
    /\ iterPoll = 0
    /\ pollRet = None
    /\ iterEnsure = 0
    /\ iterTick = 0

Init ==
    /\ BootState
    /\ brokerReachable \in BOOLEAN

(* ---------------------------------------------------------------------- *)
(* ESP.restart(): never returns.                                           *)
(* ---------------------------------------------------------------------- *)
EspRestart ==
    /\ pc' = "restart"
    /\ restartSite' = pc

(* ---------------------------------------------------------------------- *)
(* NetworkEvent                                                            *)
(* ---------------------------------------------------------------------- *)
(* Variant: the stop event has no case of its own.                         *)
LinkAfterStopIgnored(event, flag) ==
    CASE event = "ETH_GOT_IP"       -> TRUE
      [] event = "ETH_DISCONNECTED" -> FALSE
      [] OTHER                      -> flag

LinkAfter(event, flag) ==
    CASE event = "ETH_GOT_IP"       -> TRUE
      [] event = "ETH_DISCONNECTED" -> FALSE
      [] event = "ETH_STOP"         -> FALSE
      [] OTHER                      -> flag

NetworkEvent ==
    /\ registered
    /\ pc # "restart"
    /\ \E event \in LinkEvents :
         /\ eth_connected' = LinkAfter(event, eth_connected)
         /\ gotIpSeen' = (gotIpSeen \/ event = "ETH_GOT_IP")
         /\ lastLinkEvent' = (IF event \in {"ETH_GOT_IP", "ETH_DISCONNECTED", "ETH_STOP"}
                               THEN event ELSE lastLinkEvent)
    /\ UNCHANGED <<progVars, registered, alive, subscribed, brokerReachable,
                   netHist, restartSite, cmHist, iterHist, cbHist, setupHist>>

(* ---------------------------------------------------------------------- *)
(* SetupNetwork                                                            *)
(* ---------------------------------------------------------------------- *)
SetupNetworkBegin ==
    /\ pc = "setup"
    /\ registered' = TRUE
    /\ nWait' = CONNECT_WAIT
    /\ pc' = "net_while"
    /\ UNCHANGED <<eth_connected, gotIpSeen, lastLinkEvent, nLoop, caller, alive, bound,
                   callbackSet, subscribed, gate, brokerReachable, payload,
                   netHist, restartSite, cmHist, iterHist, cbHist, setupHist>>

(* Variant: the loop test is inverted, while (eth_connected).              *)
SetupNetworkWhileInverted ==
    /\ pc = "net_while"
    /\ IF eth_connected
       THEN /\ pc' = "net_delay"
            /\ ticks' = ticks + 1
            /\ UNCHANGED linkAtReturn
       ELSE /\ pc' = "mqtt_setup"
            /\ linkAtReturn' = BoolStr(eth_connected)
            /\ UNCHANGED ticks
    /\ UNCHANGED <<linkVars, nWait, nLoop, caller, alive, bound, callbackSet,
                   subscribed, gate, brokerReachable, payload, restartSite,
                   cmHist, iterHist, cbHist, setupHist>>

(* while (!eth_connected): enter delay(1000), or leave the loop and return. *)
SetupNetworkWhile ==
    /\ pc = "net_while"
    /\ IF ~eth_connected
       THEN /\ pc' = "net_delay"
            /\ ticks' = ticks + 1
            /\ UNCHANGED linkAtReturn
       ELSE /\ pc' = "mqtt_setup"
            /\ linkAtReturn' = BoolStr(eth_connected)
            /\ UNCHANGED ticks
    /\ UNCHANGED <<linkVars, nWait, nLoop, caller, alive, bound, callbackSet,
                   subscribed, gate, brokerReachable, payload, restartSite,
                   cmHist, iterHist, cbHist, setupHist>>

(* Variant: the countdown is tested before it is decremented,             *)
(* if (!nWait--).                                                          *)
SetupNetworkTickPostDecrement ==
    /\ pc = "net_delay"
    /\ nWait' = nWait - 1
    /\ IF nWait = 0
       THEN EspRestart
       ELSE pc' = "net_while" /\ UNCHANGED restartSite
    /\ UNCHANGED <<linkVars, nLoop, caller, alive, bound, callbackSet,
                   subscribed, gate, brokerReachable, payload, netHist,
                   cmHist, iterHist, cbHist, setupHist>>

(* delay(1000) is over: if (!--nWait) ESP.restart();                       *)
SetupNetworkTick ==
    /\ pc = "net_delay"
    /\ nWait' = nWait - 1
    /\ IF nWait' = 0
       THEN EspRestart
       ELSE pc' = "net_while" /\ UNCHANGED restartSite
    /\ UNCHANGED <<linkVars, nLoop, caller, alive, bound, callbackSet,
                   subscribed, gate, brokerReachable, payload, netHist,
                   cmHist, iterHist, cbHist, setupHist>>

(* ---------------------------------------------------------------------- *)
(* ConnectMqtt                                                             *)
(* ---------------------------------------------------------------------- *)
Op(name, arg) == [op |-> name, arg |-> arg]

(* The call itself: control passes to the first line of ConnectMqtt.       *)
CallConnectMqtt(who) ==
    /\ pc' = "cm_entry"
    /\ caller' = who

(* return <val>; control goes back to the statement after the call.        *)
ReturnConnectMqtt(val) ==
    /\ lastRet' = BoolStr(val)
    /\ pc' = CASE caller = "setup" -> "mqtt_callback"
               [] caller = "loop"  -> "ota"
               [] OTHER            -> "idle"

(* Variant: the call does not look at connected() and always reconnects.  *)
ConnectMqttEntryNoCheck ==
    /\ pc = "cm_entry"
    /\ cmAliveAtEntry' = BoolStr(alive)
    /\ cmLog' = <<>>
    /\ cmOk' = 0
    /\ nLoop' = 0
    /\ pc' = "cm_for"
    /\ UNCHANGED <<linkVars, nWait, caller, alive, bound, callbackSet,
                   subscribed, gate, brokerReachable, payload, netHist,
                   restartSite, lastRet, iterHist, cbHist, setupHist>>

(* if (!hMqttClient.connected()) ... else return true;                     *)
ConnectMqttEntry ==
    /\ pc = "cm_entry"
    /\ cmAliveAtEntry' = BoolStr(alive)
    /\ cmLog' = <<>>
    /\ cmOk' = 0
    /\ IF ~alive
       THEN /\ nLoop' = 0
            /\ pc' = "cm_for"
            /\ UNCHANGED lastRet
       ELSE /\ ReturnConnectMqtt(TRUE)
            /\ UNCHANGED nLoop
    /\ UNCHANGED <<linkVars, nWait, caller, alive, bound, callbackSet,
                   subscribed, gate, brokerReachable, payload, netHist,
                   restartSite, iterHist, cbHist, setupHist>>

(* Variant: the loop bound is off by one, nLoop <= 5.                      *)
ConnectLoopCondOffByOne == nLoop <= MQTT_RETRIES

(* for (...; nLoop < 5; ...)                                               *)
ConnectLoopCond == nLoop < MQTT_RETRIES

(* Variant: a successful reconnect subscribes again.                       *)
ConnectMqttAttemptResubscribe ==
    /\ pc = "cm_for"
    /\ nLoop < MQTT_RETRIES
    /\ cmLog' = Append(cmLog, Op("connect", 0))
    /\ cmOk' = (IF brokerReachable THEN cmOk + 1 ELSE cmOk)
    /\ IF brokerReachable
       THEN /\ alive' = TRUE
            /\ subscribed' = TRUE
            /\ subCalls' = subCalls + 1
            /\ ReturnConnectMqtt(TRUE)
       ELSE /\ pc' = "cm_delay"
            /\ UNCHANGED <<alive, lastRet, subscribed, subCalls>>
    /\ UNCHANGED <<linkVars, nWait, nLoop, caller, bound, callbackSet,
                   gate, brokerReachable, payload, netHist, restartSite,
                   cmAliveAtEntry, iterHist, cbHist, setupCmCalls>>

(* Variant: a successful connect does not return; the loop goes on.        *)
ConnectMqttAttemptNoReturn ==
    /\ pc = "cm_for"
    /\ ConnectLoopCond
    /\ cmLog' = Append(cmLog, Op("connect", 0))
    /\ cmOk' = (IF brokerReachable THEN cmOk + 1 ELSE cmOk)
    /\ alive' = (alive \/ brokerReachable)
    /\ pc' = "cm_delay"
    /\ UNCHANGED <<linkVars, nWait, nLoop, caller, bound, callbackSet,
                   subscribed, gate, brokerReachable, payload, netHist,
                   restartSite, cmAliveAtEntry, lastRet, iterHist, cbHist,
                   setupHist>>

(* One pass of the for body up to the delay: connect, and return true when *)
(* it succeeds.                                                            *)
ConnectMqttAttempt ==
    /\ pc = "cm_for"
    /\ ConnectLoopCond
    /\ cmLog' = Append(cmLog, Op("connect", 0))
    /\ cmOk' = (IF brokerReachable THEN cmOk + 1 ELSE cmOk)
    /\ IF brokerReachable
       THEN /\ alive' = TRUE
            /\ ReturnConnectMqtt(TRUE)
       ELSE /\ pc' = "cm_delay"
            /\ UNCHANGED <<alive, lastRet>>
    /\ UNCHANGED <<linkVars, nWait, nLoop, caller, bound, callbackSet,
                   subscribed, gate, brokerReachable, payload, netHist,
                   restartSite, cmAliveAtEntry, iterHist, cbHist, setupHist>>

(* Variant: the pause services the session, it calls hMqttClient.loop().  *)
ConnectMqttPauseServicing ==
    /\ pc = "cm_delay"
    /\ cmLog' = Append(cmLog, Op("delay", MQTT_RETRY_DELAY))
    /\ nLoop' = nLoop + 1
    /\ pc' = "cm_for"
    /\ iterPoll' = 1
    /\ UNCHANGED <<linkVars, nWait, caller, alive, bound, callbackSet,
                   subscribed, gate, brokerReachable, payload, netHist,
                   restartSite, cmAliveAtEntry, lastRet, cmOk, prevRet,
                   pollRet, iterEnsure, iterTick, cbHist, setupHist>>

(* delay(2000) is over; ++nLoop.                                           *)
ConnectMqttPause ==
    /\ pc = "cm_delay"
    /\ cmLog' = Append(cmLog, Op("delay", MQTT_RETRY_DELAY))
    /\ nLoop' = nLoop + 1
    /\ pc' = "cm_for"
    /\ UNCHANGED <<linkVars, nWait, caller, alive, bound, callbackSet,
                   subscribed, gate, brokerReachable, payload, netHist,
                   restartSite, cmAliveAtEntry, lastRet, cmOk, iterHist,
                   cbHist, setupHist>>

(* Variant: giving up reboots, as SetupNetwork does.                       *)
ConnectMqttGiveUpReboot ==
    /\ pc = "cm_for"
    /\ ~ConnectLoopCond
    /\ EspRestart
    /\ UNCHANGED <<linkVars, nWait, nLoop, caller, alive, bound, callbackSet,
                   subscribed, gate, brokerReachable, payload, netHist,
                   cmHist, iterHist, cbHist, setupHist>>

(* Variant: when the attempts are used up the call starts over.            *)
ConnectMqttGiveUpStartOver ==
    /\ pc = "cm_for"
    /\ ~ConnectLoopCond
    /\ pc' = "cm_entry"
    /\ UNCHANGED <<linkVars, nWait, nLoop, caller, alive, bound, callbackSet,
                   subscribed, gate, brokerReachable, payload, netHist,
                   restartSite, cmHist, iterHist, cbHist, setupHist>>

(* The for loop is used up: return false.                                  *)
ConnectMqttGiveUp ==
    /\ pc = "cm_for"
    /\ ~ConnectLoopCond
    /\ ReturnConnectMqtt(FALSE)
    /\ UNCHANGED <<linkVars, nWait, nLoop, caller, alive, bound, callbackSet,
                   subscribed, gate, brokerReachable, payload, netHist,
                   restartSite, cmLog, cmAliveAtEntry, cmOk, iterHist,
                   cbHist, setupHist>>

(* ---------------------------------------------------------------------- *)
(* SetupMQTT and the rest of setup()                                       *)
(* ---------------------------------------------------------------------- *)
(* setClient, setServer, (void)ConnectMqtt();                              *)
SetupMQTTBind ==
    /\ pc = "mqtt_setup"
    /\ bound' = TRUE
    /\ CallConnectMqtt("setup")
    /\ setupCmCalls' = setupCmCalls + 1
    /\ UNCHANGED <<linkVars, nWait, nLoop, alive, callbackSet, subscribed,
                   gate, brokerReachable, payload, netHist, restartSite,
                   cmHist, iterHist, cbHist, subCalls>>

SetupMQTTSetCallback ==
    /\ pc = "mqtt_callback"
    /\ callbackSet' = TRUE
    /\ pc' = "mqtt_subscribe"
    /\ UNCHANGED <<linkVars, nWait, nLoop, caller, alive, bound, subscribed,
                   gate, brokerReachable, payload, netHist, restartSite,
                   cmHist, iterHist, cbHist, setupHist>>

(* hMqttClient.subscribe(MQTT_TOPIC): the request reaches the broker only  *)
(* over a live session.                                                    *)
SetupMQTTSubscribe ==
    /\ pc = "mqtt_subscribe"
    /\ subCalls' = subCalls + 1
    /\ subscribed' = alive
    /\ pc' = "setup_rest"
    /\ UNCHANGED <<linkVars, nWait, nLoop, caller, alive, bound, callbackSet,
                   gate, brokerReachable, payload, netHist, restartSite,
                   cmHist, iterHist, cbHist, setupCmCalls>>

(* SetupOTA(); pinMode(GATE_GPIO, OUTPUT); delay(1500); setup() returns.   *)
SetupFinish ==
    /\ pc = "setup_rest"
    /\ pc' = "loop"
    /\ UNCHANGED <<linkVars, nWait, nLoop, caller, alive, bound, callbackSet,
                   subscribed, gate, brokerReachable, payload, netHist,
                   restartSite, cmHist, iterHist, cbHist, setupHist>>

(* ---------------------------------------------------------------------- *)
(* MqttCallback                                                            *)
(* ---------------------------------------------------------------------- *)
(* Variant: the switch reads the last byte of the payload.                 *)
FirstByteReadLast(p) == IF Len(p) >= 1 THEN {p[Len(p)]} ELSE Bytes

(* payload[0] as the switch reads it.  Nothing guards length 0: the byte   *)
(* read is then whatever the receive buffer holds.                         *)
FirstByteRead(p) == IF Len(p) >= 1 THEN {p[1]} ELSE Bytes

(* Variant: the cases '0' and '1' are swapped.                             *)
DecodeSwapped(b) ==
    CASE b = "0" -> "PulseToggle"
      [] b = "1" -> "ReleaseLow"
      [] b = "9" -> "Restart"
      [] OTHER   -> "Unknown"

(* Variant: a byte that is no command restarts.                            *)
DecodeUnknownRestarts(b) ==
    CASE b = "0" -> "ReleaseLow"
      [] b = "1" -> "PulseToggle"
      [] OTHER   -> "Restart"

Decode(b) ==
    CASE b = "0" -> "ReleaseLow"
      [] b = "1" -> "PulseToggle"
      [] b = "9" -> "Restart"
      [] OTHER   -> "Unknown"

WriteLow  == Op("write", 0)
WriteHigh == Op("write", 1)

(* switch (payload[0]) up to the first blocking point or the return.       *)
MqttCallbackSwitch ==
    /\ pc = "cb_switch"
    /\ \E b \in FirstByteRead(payload) :
         LET cmd == Decode(b) IN
         CASE cmd = "ReleaseLow" ->
                /\ gate' = "LOW"
                /\ cbLog' = Append(cbLog, WriteLow)
                /\ pc' = "loop_if"
                /\ UNCHANGED restartSite
           [] cmd = "PulseToggle" ->
                /\ gate' = "HIGH"
                /\ cbLog' = Append(cbLog, WriteHigh)
                /\ pc' = "cb_pulse"
                /\ UNCHANGED restartSite
           [] cmd = "Restart" ->
                /\ cbLog' = Append(cbLog, Op("restart", 0))
                /\ EspRestart
                /\ UNCHANGED gate
           [] OTHER ->
                /\ pc' = "loop_if"
                /\ UNCHANGED <<gate, cbLog, restartSite>>
    /\ UNCHANGED <<linkVars, nWait, nLoop, caller, alive, bound, callbackSet,
                   subscribed, brokerReachable, payload, netHist, cmHist,
                   iterHist, cbCalls, setupHist>>

(* Variant: the write that ends the pulse is missing.                      *)
MqttCallbackPulseEndNoLow ==
    /\ pc = "cb_pulse"
    /\ cbLog' = Append(cbLog, Op("delay", PULSE_DELAY))
    /\ pc' = "loop_if"
    /\ UNCHANGED <<linkVars, nWait, nLoop, caller, alive, bound, callbackSet,
                   subscribed, gate, brokerReachable, payload, netHist,
                   restartSite, cmHist, iterHist, cbCalls, setupHist>>

(* delay(750) is over; digitalWrite(GATE_GPIO, LOW); break.                *)
MqttCallbackPulseEnd ==
    /\ pc = "cb_pulse"
    /\ gate' = "LOW"
    /\ cbLog' = cbLog \o <<Op("delay", PULSE_DELAY), WriteLow>>
    /\ pc' = "loop_if"
    /\ UNCHANGED <<linkVars, nWait, nLoop, caller, alive, bound, callbackSet,
                   subscribed, brokerReachable, payload, netHist, restartSite,
                   cmHist, iterHist, cbCalls, setupHist>>

(* ---------------------------------------------------------------------- *)
(* loop()                                                                  *)
(* ---------------------------------------------------------------------- *)
(* hMqttClient.loop(): false when the session is not alive; otherwise it   *)
(* hands at most one received message to the callback and returns true.    *)
LoopPoll ==
    /\ pc = "loop"
    /\ iterPoll' = iterPoll + 1
    /\ prevRet' = lastRet
    /\ pollRet' = BoolStr(alive)
    /\ \/ /\ pc' = "loop_if"
          /\ UNCHANGED <<payload, cbHist>>
       \/ /\ alive /\ subscribed /\ callbackSet
          /\ \E p \in Payloads : payload' = p
          /\ cbLog' = <<>>
          /\ cbCalls' = cbCalls + 1
          /\ pc' = "cb_switch"
    /\ UNCHANGED <<linkVars, nWait, nLoop, caller, alive, bound, callbackSet,
                   subscribed, gate, brokerReachable, netHist, restartSite,
                   cmHist, iterEnsure, iterTick, setupHist>>

(* Variants: the test of the poll's result is inverted; there is no test. *)
LoopNeedsConnectInverted == pollRet = "true"
LoopNeedsConnectAlways == TRUE

(* if (!hMqttClient.loop())                                                *)
LoopNeedsConnect == pollRet = "false"

LoopIf ==
    /\ pc = "loop_if"
    /\ IF LoopNeedsConnect
       THEN /\ CallConnectMqtt("loop")
            /\ iterEnsure' = iterEnsure + 1
       ELSE /\ pc' = "ota"
            /\ UNCHANGED <<caller, iterEnsure>>
    /\ UNCHANGED <<linkVars, nWait, nLoop, alive, bound, callbackSet,
                   subscribed, gate, brokerReachable, payload, netHist,
                   restartSite, cmHist, prevRet, iterPoll, pollRet, iterTick,
                   cbHist, setupHist>>

(* ArduinoOTA.handle(); loop() returns.                                    *)
LoopOta ==
    /\ pc = "ota"
    /\ iterTick' = iterTick + 1
    /\ pc' = "loop_ret"
    /\ UNCHANGED <<linkVars, nWait, nLoop, caller, alive, bound, callbackSet,
                   subscribed, gate, brokerReachable, payload, netHist,
                   restartSite, cmHist, prevRet, iterPoll, pollRet, iterEnsure,
                   cbHist, setupHist>>

(* The framework calls loop() again: a new iteration begins.               *)
LoopAgain ==
    /\ pc = "loop_ret"
    /\ pc' = "loop"
    /\ payload' = <<>>
    /\ cbLog' = <<>>
    /\ cbCalls' = 0
    /\ iterPoll' = 0
    /\ pollRet' = None
    /\ iterEnsure' = 0
    /\ iterTick' = 0
    /\ UNCHANGED <<linkVars, nWait, nLoop, caller, alive, bound, callbackSet,
                   subscribed, gate, brokerReachable, netHist, restartSite,
                   cmHist, prevRet, setupHist>>

(* ---------------------------------------------------------------------- *)
(* The restart takes effect: a fresh program boots.                        *)
(* ---------------------------------------------------------------------- *)
Boot ==
    /\ pc = "restart"
    /\ pc' = "setup"
    /\ eth_connected' = FALSE
    /\ registered' = FALSE
    /\ nWait' = 0
    /\ nLoop' = 0
    /\ caller' = None
    /\ alive' = FALSE
    /\ bound' = FALSE
    /\ callbackSet' = FALSE
    /\ subscribed' = FALSE
    /\ gate' = "LOW"
    /\ payload' = <<>>
    /\ ticks' = 0
    /\ restartSite' = None
    /\ gotIpSeen' = FALSE
    /\ lastLinkEvent' = None
    /\ linkAtReturn' = None
    /\ cmLog' = <<>>
    /\ cmAliveAtEntry' = None
    /\ lastRet' = None
    /\ cmOk' = 0
    /\ prevRet' = None
    /\ cbLog' = <<>>
    /\ cbCalls' = 0
    /\ setupCmCalls' = 0
    /\ subCalls' = 0
    /\ iterPoll' = 0
    /\ pollRet' = None
    /\ iterEnsure' = 0
    /\ iterTick' = 0
    /\ UNCHANGED brokerReachable

(* ---------------------------------------------------------------------- *)
(* The environment                                                         *)
(* ---------------------------------------------------------------------- *)
BrokerChange ==
    /\ pc # "restart"
    /\ brokerReachable' = ~brokerReachable
    /\ UNCHANGED <<progVars, linkVars, alive, subscribed, netHist, restartSite,
                   cmHist, iterHist, cbHist, setupHist>>

(* The session is lost (socket closed, keep-alive timed out); the broker   *)
(* forgets the clean session's subscription.                               *)
SessionLost ==
    /\ pc # "restart"
    /\ alive
    /\ alive' = FALSE
    /\ subscribed' = FALSE
    /\ UNCHANGED <<progVars, linkVars, brokerReachable, netHist, restartSite,
                   cmHist, iterHist, cbHist, setupHist>>

Program ==
    \/ SetupNetworkBegin
    \/ SetupNetworkWhile
    \/ SetupNetworkTick
    \/ SetupMQTTBind
    \/ ConnectMqttEntry
    \/ ConnectMqttAttempt
    \/ ConnectMqttPause
    \/ ConnectMqttGiveUp
    \/ SetupMQTTSetCallback
    \/ SetupMQTTSubscribe
    \/ SetupFinish
    \/ LoopPoll
    \/ MqttCallbackSwitch
    \/ MqttCallbackPulseEnd
    \/ LoopIf
    \/ LoopOta
    \/ LoopAgain
    \/ Boot

Environment ==
    \/ NetworkEvent
    \/ BrokerChange
    \/ SessionLost

Next == Program \/ Environment

Spec == Init /\ [][Next]_vars

(* The thread of control never stops of its own: delays end, calls return. *)
FairSpec == Spec /\ WF_vars(Program)

(* ---------------------------------------------------------------------- *)
(* ConnectMqtt called in any session state, again and again.  In the       *)
(* program itself every call finds the session dead (setup() calls it      *)
(* before any connect, loop() only after hMqttClient.loop() returned       *)
(* false), so the behaviour of a call on a live session is examined here.  *)
(* ---------------------------------------------------------------------- *)
InitEnsure ==
    /\ pc = "idle"
    /\ eth_connected \in BOOLEAN
    /\ registered = TRUE
    /\ nWait = CONNECT_WAIT
    /\ nLoop = 0
    /\ caller = None
    /\ alive \in BOOLEAN
    /\ bound = TRUE
    /\ callbackSet = FALSE
    /\ subscribed = FALSE
    /\ gate = "LOW"
    /\ brokerReachable \in BOOLEAN
    /\ payload = <<>>
    /\ ticks = 0
    /\ restartSite = None
    /\ gotIpSeen = eth_connected
    /\ lastLinkEvent = (IF eth_connected THEN "ETH_GOT_IP" ELSE None)
    /\ linkAtReturn = None
    /\ cmLog = <<>>
    /\ cmAliveAtEntry = None
    /\ lastRet = None
    /\ cmOk = 0
    /\ prevRet = None
    /\ cbLog = <<>>
    /\ cbCalls = 0
    /\ setupCmCalls = 0
    /\ subCalls = 0
    /\ iterPoll = 0
    /\ pollRet = None
    /\ iterEnsure = 0
    /\ iterTick = 0

EnsureCall ==
    /\ pc = "idle"
    /\ CallConnectMqtt("harness")
    /\ prevRet' = lastRet
    /\ UNCHANGED <<linkVars, nWait, nLoop, alive, bound, callbackSet,
                   subscribed, gate, brokerReachable, payload, netHist,
                   restartSite, cmHist, iterPoll, pollRet, iterEnsure,
                   iterTick, cbHist, setupHist>>

NextEnsure ==
    \/ EnsureCall
    \/ ConnectMqttEntry
    \/ ConnectMqttAttempt
    \/ ConnectMqttPause
    \/ ConnectMqttGiveUp
    \/ NetworkEvent
    \/ BrokerChange
    \/ SessionLost

SpecEnsure == InitEnsure /\ [][NextEnsure]_vars

(* ====================================================================== *)
(* Properties                                                              *)
(* ====================================================================== *)
InConnectMqtt == pc \in {"cm_entry", "cm_for", "cm_delay"}
InNetworkStage == pc \in {"setup", "net_while", "net_delay"}
CallbackReturned == cbCalls = 1 /\ pc \in {"loop_if", "ota", "loop_ret"}
LinkTimeoutRestart == pc = "restart" /\ restartSite = "net_delay"
CommandRestart == pc = "restart" /\ restartSite = "cb_switch"

ExpectedEffects(b) ==
    CASE b = "0" -> <<[op |-> "write", arg |-> 0]>>
      [] b = "1" -> <<[op |-> "write", arg |-> 1], [op |-> "delay", arg |-> 750],
                      [op |-> "write", arg |-> 0]>>
      [] b = "9" -> <<[op |-> "restart", arg |-> 0]>>
      [] OTHER   -> <<>>

(* C1: for a message of length >= 1 the effects of MqttCallback are        *)
(* decided by payload[0]: '0' writes the line low once and nothing else;   *)
(* '1' writes high, waits 750 ms, writes low, once, in that order, without *)
(* a restart; '9' restarts once without any write; any other byte causes   *)
(* no write and no restart.                                                *)
C1_CommandEffects ==
    (cbCalls = 1 /\ Len(payload) >= 1) =>
        /\ pc = "cb_switch" => cbLog = <<>>
        /\ pc = "cb_pulse" =>
             /\ payload[1] = "1"
             /\ cbLog = <<[op |-> "write", arg |-> 1]>>
             /\ gate = "HIGH"
        /\ CallbackReturned =>
             /\ payload[1] # "9"
             /\ cbLog = ExpectedEffects(payload[1])
             /\ gate = "LOW" \/ payload[1] \notin {"0", "1"}
        /\ CommandRestart =>
             /\ payload[1] = "9"
             /\ cbLog = ExpectedEffects("9")
        /\ payload[1] = "9" => pc \in {"cb_switch", "restart"}

C1_Witness ==
    /\ CallbackReturned
    /\ payload = <<"1", "x">>
    /\ Len(cbLog) = 3
    /\ gate = "LOW"

AllFailedLog ==
    [i \in 1..10 |-> IF i % 2 = 1 THEN [op |-> "connect", arg |-> 0]
                                  ELSE [op |-> "delay", arg |-> 2000]]

Attempts(log) == Cardinality({i \in 1..Len(log) : log[i].op = "connect"})
Pauses(log) == Cardinality({i \in 1..Len(log) : log[i].op = "delay"})

(* C2: a ConnectMqtt call that finds the session dead and whose every      *)
(* connect fails makes exactly 5 attempts, a 2-second pause after each,    *)
(* never a 6th, and returns false; every call starts with the full budget. *)
C2_FiveAttempts ==
    /\ Attempts(cmLog) <= 5
    /\ \A i \in 1..Len(cmLog) : cmLog[i] = AllFailedLog[i]
    /\ (lastRet = "false" /\ ~InConnectMqtt) =>
          /\ cmLog = AllFailedLog
          /\ Attempts(cmLog) = 5
          /\ cmAliveAtEntry = "false"
    /\ (pc = "cm_for" /\ Attempts(cmLog) = 5) => Pauses(cmLog) = 5

(* the second of two failed calls in a row has made its own 5 attempts     *)
C2_Witness ==
    /\ pc = "ota"
    /\ prevRet = "false"
    /\ lastRet = "false"
    /\ iterEnsure = 1
    /\ Attempts(cmLog) = 5

(* C3: a ConnectMqtt call made while the session is alive makes no connect *)
(* attempt and no pause, changes nothing of the session and returns true,  *)
(* every time.                                                             *)
C3_IdempotentWhileAlive ==
    [][(pc = "cm_entry" /\ alive /\ pc' # pc) =>
          /\ pc' = "idle"
          /\ lastRet' = "true"
          /\ cmLog' = <<>>
          /\ cmAliveAtEntry' = "true"
          /\ UNCHANGED <<alive, subscribed, bound, callbackSet, nLoop,
                         brokerReachable, eth_connected, gate>>]_vars

C3_Witness ==
    /\ pc = "idle"
    /\ alive
    /\ cmAliveAtEntry = "true"
    /\ prevRet = "true"
    /\ lastRet = "true"
    /\ cmLog = <<>>

(* C4 as stated: a restart for link timeout happens only when the address  *)
(* was not acquired before 30 seconds had elapsed, the 30th tick included. *)
C4_RestartOnlyIfStillDown ==
    LinkTimeoutRestart => ~eth_connected

C7_NextIterationRetries ==
    (iterPoll = 1 /\ prevRet = "false") =>
        /\ pollRet = "false"
        /\ pc \in {"loop_if", "cm_entry", "cm_for", "cm_delay", "ota", "loop_ret"}
        /\ pc # "loop_if" => iterEnsure = 1

(* C7: after ConnectMqtt returned false the next loop() iteration calls it *)
(* again; so if the broker is reachable from some time on and no restart   *)
(* occurs, the session is alive again and again.                           *)
C7_RetryResumes ==
    /\ []C7_NextIterationRetries
    /\ (<>[](brokerReachable /\ pc # "restart")) => []<>alive

C7_Witness ==
    /\ pc = "ota"
    /\ iterPoll = 1
    /\ prevRet = "false"
    /\ iterEnsure = 1
    /\ lastRet = "true"
    /\ alive

AfterSubscribe ==
    \/ pc \in {"setup_rest", "loop", "loop_if", "cb_switch", "cb_pulse", "ota",
               "loop_ret"}
    \/ InConnectMqtt /\ caller = "loop"
    \/ CommandRestart

(* C8: per boot, subscribe is called once, in SetupMQTT, after the handle  *)
(* is bound, after the one ConnectMqtt call of setup and after the         *)
(* callback is installed; no reconnect subscribes.                         *)
C8_SubscribeOnce ==
    /\ subCalls <= 1
    /\ subCalls = 1 <=> AfterSubscribe
    /\ subCalls = 1 =>
          /\ bound
          /\ callbackSet
          /\ setupCmCalls = 1
          /\ lastRet # None
    /\ setupCmCalls <= 1

(* a reconnect made by loop() succeeded, and subscribe was not called again *)
C8_Witness ==
    /\ pc = "ota"
    /\ caller = "loop"
    /\ iterEnsure = 1
    /\ lastRet = "true"
    /\ alive
    /\ subCalls = 1

(* C9 as stated: every iteration calls ConnectMqtt and the maintenance     *)
(* tick exactly once each.                                                 *)
C9_EnsureEveryIteration ==
    pc = "loop_ret" => (iterEnsure = 1 /\ iterTick = 1)

(* C9, amended: every iteration that runs to its end polls the session and *)
(* calls the maintenance tick exactly once each; it calls ConnectMqtt      *)
(* exactly once when the poll returned false and not at all when it        *)
(* returned true.                                                          *)
C9_EnsureOnlyAfterFailedPoll ==
    /\ iterPoll <= 1 /\ iterEnsure <= 1 /\ iterTick <= 1
    /\ pollRet = "true" => iterEnsure = 0
    /\ pc \in {"ota", "loop_ret"} =>
          /\ iterPoll = 1
          /\ iterEnsure = (IF pollRet = "false" THEN 1 ELSE 0)
    /\ pc = "loop_ret" => iterTick = 1
    /\ pc # "loop_ret" => iterTick = 0

C9_Witness ==
    /\ pc = "loop_ret"
    /\ pollRet = "false"
    /\ iterEnsure = 1
    /\ iterTick = 1

(* C10: SetupNetwork returns only on reading the link flag as up; without  *)
(* an address-acquired event neither SetupMQTT nor loop() is reached.      *)
C10_LinkUpBeforeSession ==
    /\ (~InNetworkStage /\ ~LinkTimeoutRestart) =>
          (linkAtReturn = "true" /\ gotIpSeen)
    /\ ~gotIpSeen =>
          /\ InNetworkStage \/ LinkTimeoutRestart
          /\ setupCmCalls = 0
          /\ subCalls = 0
          /\ iterPoll = 0
          /\ ~bound

C10_Witness ==
    /\ pc = "mqtt_setup"
    /\ linkAtReturn = "true"
    /\ ticks >= 1
    /\ ~bound

ConnectMqttReturned == ~InConnectMqtt /\ cmAliveAtEntry # None

(* C11: a ConnectMqtt call that finds the session dead returns true at the *)
(* first connect that succeeds: if that is attempt k, k attempts and k-1   *)
(* pauses were made and none follows; the call returns true exactly when   *)
(* the session was alive at entry or an attempt succeeded.                 *)
C11_ReturnsAtFirstSuccess ==
    /\ cmOk <= 1
    /\ pc \in {"cm_for", "cm_delay"} => cmOk = 0
    /\ ConnectMqttReturned =>
          /\ lastRet = "true" <=> (cmAliveAtEntry = "true" \/ cmOk >= 1)
          /\ cmOk = 1 =>
                /\ cmAliveAtEntry = "false"
                /\ Attempts(cmLog) \in 1..5
                /\ Pauses(cmLog) = Attempts(cmLog) - 1
                /\ Len(cmLog) = 2 * Attempts(cmLog) - 1
                /\ cmLog[Len(cmLog)].op = "connect"
                /\ \A i \in 1..Len(cmLog) :
                      cmLog[i].op = (IF i % 2 = 1 THEN "connect" ELSE "delay")
          /\ cmAliveAtEntry = "true" => cmLog = <<>>

(* the third attempt was the first to succeed                              *)
C11_Witness ==
    /\ ConnectMqttReturned
    /\ cmAliveAtEntry = "false"
    /\ lastRet = "true"
    /\ cmOk = 1
    /\ Attempts(cmLog) = 3
    /\ Pauses(cmLog) = 2

(* C12: for a message whose first byte is none of '0', '1', '9' the        *)
(* callback returns normally and leaves the line level, the session, the   *)
(* link state and the subscription as they were; there is no restart.      *)
C12_UnknownIgnored ==
    [][(/\ pc = "cb_switch"
        /\ Len(payload) >= 1
        /\ payload[1] \notin {"0", "1", "9"}
        /\ pc' # pc) =>
          /\ pc' = "loop_if"
          /\ UNCHANGED <<gate, alive, subscribed, subCalls, bound, callbackSet,
                         eth_connected, lastLinkEvent, restartSite, cbLog,
                         pollRet, brokerReachable>>]_vars

C12_Witness ==
    /\ CallbackReturned
    /\ payload = <<"x", "1">>
    /\ cbLog = <<>>
    /\ gate = "LOW"
    /\ alive
    /\ subscribed

(* What one step of the callback does, given the byte at payload[0] and    *)
(* nothing else of the payload: the new position, line level, log and      *)
(* restart site.                                                           *)
CallbackStepEffect(at, b, level, log, site) ==
    CASE at = "cb_pulse" ->
           <<"loop_if", "LOW",
             log \o <<[op |-> "delay", arg |-> 750], [op |-> "write", arg |-> 0]>>, site>>
      [] at = "cb_switch" /\ b = "0" ->
           <<"loop_if", "LOW", Append(log, [op |-> "write", arg |-> 0]), site>>
      [] at = "cb_switch" /\ b = "1" ->
           <<"cb_pulse", "HIGH", Append(log, [op |-> "write", arg |-> 1]), site>>
      [] at = "cb_switch" /\ b = "9" ->
           <<"restart", level, Append(log, [op |-> "restart", arg |-> 0]), at>>
      [] OTHER ->
           <<"loop_if", level, log, site>>

(* C13: every step of the callback on a payload of length >= 1 is decided  *)
(* by the state and payload[0] alone, so two payloads with the same first  *)
(* byte have the same writes, restarts and resulting state.                *)
C13_FirstByteOnly ==
    [][(/\ pc \in {"cb_switch", "cb_pulse"}
        /\ Len(payload) >= 1
        /\ pc' # pc) =>
          /\ <<pc', gate', cbLog', restartSite'>> =
                CallbackStepEffect(pc, payload[1], gate, cbLog, restartSite)
          /\ UNCHANGED <<linkVars, nWait, nLoop, caller, alive, bound,
                         callbackSet, subscribed, brokerReachable, payload,
                         netHist, cmHist, iterHist, cbCalls, setupHist>>]_vars

(* "9x" restarts as "9" does                                               *)
C13_Witness ==
    /\ CommandRestart
    /\ payload = <<"9", "x">>
    /\ cbLog = <<[op |-> "restart", arg |-> 0]>>
    /\ gate = "LOW"

(* C14: SetupMQTT returns, and so setup() returns and loop() is first      *)
(* entered, only after a connect to the broker has succeeded.              *)
C14_SetupReturnsConnected ==
    pc \in {"mqtt_callback", "mqtt_subscribe", "setup_rest"} => lastRet = "true"

(* C15: no session operation (connect attempt, subscribe, session poll) is *)
(* made while the link flag is not up.                                     *)
C15_NoSessionOpWhileLinkDown ==
    [][(\/ Attempts(cmLog') > Attempts(cmLog)
        \/ subCalls' > subCalls
        \/ iterPoll' > iterPoll) => eth_connected]_vars

LinkFlagFollowsEvents == eth_connected = (lastLinkEvent = "ETH_GOT_IP")

(* C16: eth_connected is written by NetworkEvent only: address acquired    *)
(* sets it, disconnect and stop clear it, other events leave it; so it     *)
(* always equals the outcome of the last of those three events since boot  *)
(* (false when there was none), and no step of the program changes it.     *)
C16_LinkFlagOnlyByEvents ==
    /\ []LinkFlagFollowsEvents
    /\ [][(pc' # pc /\ pc # "restart") =>
             UNCHANGED <<eth_connected, lastLinkEvent>>]_vars
    /\ [][eth_connected' # eth_connected =>
             (registered /\ (pc' = pc \/ pc = "restart"))]_vars

(* the flag was cleared by a stop event while the main loop runs           *)
C16_Witness ==
    /\ pc = "ota"
    /\ lastLinkEvent = "ETH_STOP"
    /\ ~eth_connected
    /\ gotIpSeen

serviceCounts == <<cbCalls, iterPoll, iterTick>>

(* C17: while the program is blocked nothing else is serviced: between the *)
(* high and the low write of a pulse, and between the first attempt and    *)
(* the return of a ConnectMqtt retry loop (and in SetupNetwork's wait      *)
(* loop), no callback is dispatched, no session poll and no maintenance    *)
(* tick runs; a callback is dispatched only while the line is low, so      *)
(* pulses do not nest.                                                     *)
C17_BlockingRunsToCompletion ==
    [][/\ pc = "cb_pulse" =>
             /\ UNCHANGED <<serviceCounts, iterEnsure, payload>>
             /\ \/ pc' = "cb_pulse" /\ UNCHANGED <<gate, cbLog>>
                \/ pc' = "loop_if" /\ gate' = "LOW"
       /\ pc \in {"cm_for", "cm_delay"} =>
             /\ UNCHANGED <<serviceCounts, iterEnsure, gate>>
             /\ pc' \in {"cm_for", "cm_delay", "mqtt_callback", "ota"}
       /\ pc \in {"net_while", "net_delay"} =>
             /\ UNCHANGED <<serviceCounts, iterEnsure, gate>>
             /\ pc' \in {"net_while", "net_delay", "mqtt_setup", "restart"}
       /\ cbCalls' > cbCalls =>
             /\ pc = "loop"
             /\ gate = "LOW"
             /\ cbCalls = 0]_vars

(* inside a pulse: the session was lost meanwhile and nothing was serviced *)
C17_Witness ==
    /\ pc = "cb_pulse"
    /\ gate = "HIGH"
    /\ ~alive
    /\ cbCalls = 1
    /\ iterPoll = 1
    /\ iterTick = 0

(* C18: the line is high only inside the 750 ms pulse of a '1' command: it *)
(* is low at every iteration boundary, whenever ConnectMqtt or the         *)
(* maintenance tick runs, and whenever a restart is invoked.               *)
C18_GateLowOutsidePulse ==
    /\ gate \in {"LOW", "HIGH"}
    /\ gate = "HIGH" <=> pc = "cb_pulse"

(* a pulse was made and the maintenance tick then ran with the line low    *)
C18_Witness ==
    /\ pc = "loop_ret"
    /\ cbCalls = 1
    /\ payload = <<"1">>
    /\ Len(cbLog) = 3
    /\ iterTick = 1
    /\ gate = "LOW"

MainLoopRunning ==
    \/ pc \in {"loop", "loop_if", "cb_switch", "cb_pulse", "ota", "loop_ret"}
    \/ InConnectMqtt /\ caller = "loop"

(* C19: whenever the session is alive while the main loop runs, the        *)
(* broker holds the subscription to the command topic.                     *)
C19_AliveImpliesSubscribed ==
    (MainLoopRunning /\ alive) => subscribed

InCallback == pc \in {"cb_switch", "cb_pulse"}
InBlockingOperation == InNetworkStage \/ InConnectMqtt \/ InCallback
TickOrRestart == (pc = "loop_ret" /\ iterTick = 1) \/ pc = "restart"

====
